---- MODULE Spec2Model ----
(***************************************************************************)
(* klaxer/rules.py: the Rules object.  Its constructor walks the parsed    *)
(* configuration tree and compiles, per service section, four rule sets    *)
(* (classification, exclusion, enrichment, routing); four accessors hand   *)
(* the compiled rule sets out, and a caller applies the rules to an alert. *)
(*                                                                         *)
(* Python strings that the code inspects (service names, keywords,         *)
(* messages, templates) are sequences of one-character strings, so that    *)
(* str.lower(), the `in` substring test and str.format() are computed.     *)
(* A closure (lambda) is a record holding the values it captured.          *)
(***************************************************************************)
EXTENDS Naturals, Sequences, FiniteSets, TLC

VARIABLES
    _config,                \* self._config: section name -> service config
    sections,               \* iteration order of self._config's keys
    _classification_rules,  \* self._classification_rules
    _exclusion_rules,       \* self._exclusion_rules
    _enrichment_rules,      \* self._enrichment_rules
    _routing_rules,         \* self._routing_rules
    pc,                     \* "init" | "constructed" | "raised"
    built,                  \* number of sections the constructor's loop has taken
    raised,                 \* the exception that left the constructor, or "none"
    returned,               \* what the last accessor call returned or raised
    alert,                  \* the Alert object handed to the rules
    applied                 \* what the returned rules gave for the alert

vars == <<_config, sections, _classification_rules, _exclusion_rules,
          _enrichment_rules, _routing_rules, pc, built, raised,
          returned, alert, applied>>

store == <<_classification_rules, _exclusion_rules, _enrichment_rules, _routing_rules>>

----------------------------------------------------------------------------
(* Bounds *)

\* longest alert message
MaxMsgLen == 2
\* most entries of an enrichments / routes / exclude list
MaxEntries == 2
\* most sections of a configuration tree with several services
MaxSections == 2

----------------------------------------------------------------------------
(* Strings *)

Chars == {"d", "D", "b"}

\* str.lower() on one character
LowerChar(c) ==
    CASE c = "D" -> "d"
      [] c = "F" -> "f"
      [] c = "O" -> "o"
      [] OTHER -> c

\* str.lower()
Lower(s) == [i \in 1..Len(s) |-> LowerChar(s[i])]

\* needle in hay (Python's substring test on str)
In(needle, hay) ==
    \E i \in 0..Len(hay) :
        /\ i + Len(needle) <= Len(hay)
        /\ SubSeq(hay, i + 1, i + Len(needle)) = needle

\* the replacement field of a template
Slot == "{0}"

RECURSIVE Format(_, _)
\* template.format(arg): every replacement field becomes arg
Format(template, arg) ==
    IF template = <<>> THEN <<>>
    ELSE (IF Head(template) = Slot THEN arg ELSE <<Head(template)>>)
         \o Format(Tail(template), arg)

\* all sequences over S of length at most n
SeqsUpTo(S, n) == UNION {[1..k -> S] : k \in 0..n}

----------------------------------------------------------------------------
(* Python values *)

\* None
None == [none |-> TRUE]
\* a str returned by a routing rule, boxed so that it compares with None
Str(s) == [str |-> s]
\* a YAML scalar string / a YAML sequence / a YAML mapping as a section value
YamlStr(v) == [type |-> "str", value |-> v]
YamlList(v) == [type |-> "list", value |-> v]
YamlDict == [type |-> "dict", value |-> <<>>]

\* one {IF: ..., THEN: ...} mapping of an enrichments or routes list
Entry(if, then) == ("IF" :> if) @@ ("THEN" :> then)
Entries(ifs, thens) == {Entry(k, t) : k \in ifs, t \in thens}

\* dict.get(key, default)
Get(d, key, default) == IF key \in DOMAIN d THEN d[key] ELSE default

----------------------------------------------------------------------------
(* The rules: what each lambda computes from the values it captured *)

\* any(k in x.message.lower() for k in keywords)
AnyIn(keywords, x) ==
    \E i \in 1..Len(keywords) : In(keywords[i], Lower(x.message))

\* the classification lambda (captures cfg)
ClassificationLambda(cfg, x) ==
    IF AnyIn(Get(cfg["classification"], "CRITICAL", <<>>), x) THEN "CRITICAL"
    ELSE IF AnyIn(Get(cfg["classification"], "WARNING", <<>>), x) THEN "WARNING"
    ELSE IF AnyIn(Get(cfg["classification"], "OK", <<>>), x) THEN "OK"
    ELSE "UNKNOWN"

\* the exclusion lambda (captures cfg)
ExclusionLambda(cfg, x) == AnyIn(cfg["exclude"], x)

\* the enrichment lambda of a single template string (captures cfg)
EnrichmentStrLambda(cfg, x) ==
    [message |-> Format(cfg["enrichments"].value, x.message)]

\* the enrichment lambda of one IF/THEN entry (captures e)
EnrichmentEntryLambda(e, x) ==
    IF In(Lower(e["IF"]), Lower(x.message))
    THEN [message |-> Format(e["THEN"], x.message)]
    ELSE None

\* the routing lambda of a single destination string (captures cfg)
RoutingStrLambda(cfg, x) == Str(cfg["routes"].value)

\* faulty variant: the IF keyword is matched as written, as the classification keywords are
RoutingEntryLambda_RawIf(r, x) ==
    IF In(r["IF"], Lower(x.message)) THEN Str(r["THEN"]) ELSE None

\* the routing lambda of one IF/THEN entry (captures r)
RoutingEntryLambda(r, x) ==
    IF In(Lower(r["IF"]), Lower(x.message)) THEN Str(r["THEN"]) ELSE None

\* a closure: the lambda's place in the source and the value it captured
Closure(lambda, captured) == [lambda |-> lambda, captured |-> captured]

\* rule(x): calling a closure on an alert
Call(rule, x) ==
    CASE rule.lambda = "classification"   -> ClassificationLambda(rule.captured, x)
      [] rule.lambda = "exclusion"        -> ExclusionLambda(rule.captured, x)
      [] rule.lambda = "enrichment_str"   -> EnrichmentStrLambda(rule.captured, x)
      [] rule.lambda = "enrichment_entry" -> EnrichmentEntryLambda(rule.captured, x)
      [] rule.lambda = "routing_str"      -> RoutingStrLambda(rule.captured, x)
      [] rule.lambda = "routing_entry"    -> RoutingEntryLambda(rule.captured, x)

----------------------------------------------------------------------------
(* The rule compiler.  Each builder takes the rule map it writes and the   *)
(* section name, and gives the map as the builder leaves it together with  *)
(* the exception it raised ("none" when it returned).                      *)

Outcome(rules, exc) == [rules |-> rules, raises |-> exc]

\* rules[service] = value
Assign(rules, service, value) == (service :> value) @@ rules

_build_classification_rules(rules, section) ==
    LET service == Lower(section) IN
    IF service \notin DOMAIN _config THEN Outcome(rules, "KeyError")
    ELSE LET cfg == _config[service] IN
         IF "classification" \notin DOMAIN cfg
         THEN Outcome(rules, "ConfigurationError")
         ELSE Outcome(Assign(rules, service, <<Closure("classification", cfg)>>), "none")

_build_exclusion_rules(rules, section) ==
    LET service == Lower(section) IN
    IF service \notin DOMAIN _config THEN Outcome(rules, "KeyError")
    ELSE LET cfg == _config[service] IN
         IF "exclude" \notin DOMAIN cfg
         THEN Outcome(Assign(rules, service, <<>>), "none")
         ELSE Outcome(Assign(rules, service, <<Closure("exclusion", cfg)>>), "none")

\* faulty variant: the lambdas do not bind e at definition (no e=e), so each sees the last entry
_build_enrichment_rules_LateBinding(rules, section) ==
    LET service == Lower(section) IN
    IF service \notin DOMAIN _config THEN Outcome(rules, "KeyError")
    ELSE LET cfg == _config[service] IN
         IF "enrichments" \notin DOMAIN cfg
         THEN Outcome(Assign(rules, service, <<>>), "none")
         ELSE IF cfg["enrichments"].type = "str"
         THEN Outcome(Assign(rules, service, <<Closure("enrichment_str", cfg)>>), "none")
         ELSE IF cfg["enrichments"].type = "list"
         THEN Outcome(Assign(rules, service,
                        [i \in 1..Len(cfg["enrichments"].value) |->
                            Closure("enrichment_entry",
                                    cfg["enrichments"].value[Len(cfg["enrichments"].value)])]),
                      "none")
         ELSE Outcome(Assign(rules, service, <<>>), "ConfigurationError")

_build_enrichment_rules(rules, section) ==
    LET service == Lower(section) IN
    IF service \notin DOMAIN _config THEN Outcome(rules, "KeyError")
    ELSE LET cfg == _config[service] IN
         IF "enrichments" \notin DOMAIN cfg
         THEN Outcome(Assign(rules, service, <<>>), "none")
         ELSE IF cfg["enrichments"].type = "str"
         THEN Outcome(Assign(rules, service, <<Closure("enrichment_str", cfg)>>), "none")
         ELSE IF cfg["enrichments"].type = "list"
         THEN Outcome(Assign(rules, service,
                        [i \in 1..Len(cfg["enrichments"].value) |->
                            Closure("enrichment_entry", cfg["enrichments"].value[i])]),
                      "none")
         ELSE Outcome(Assign(rules, service, <<>>), "ConfigurationError")

_build_routing_rules(rules, section) ==
    LET service == Lower(section) IN
    IF service \notin DOMAIN _config THEN Outcome(rules, "KeyError")
    ELSE LET cfg == _config[service] IN
         IF "routes" \notin DOMAIN cfg
         THEN Outcome(rules, "ConfigurationError")
         ELSE IF cfg["routes"].type = "str"
         THEN Outcome(Assign(rules, service, <<Closure("routing_str", cfg)>>), "none")
         ELSE IF cfg["routes"].type = "list"
         THEN Outcome(Assign(rules, service,
                        [i \in 1..Len(cfg["routes"].value) |->
                            Closure("routing_entry", cfg["routes"].value[i])]),
                      "none")
         ELSE Outcome(Assign(rules, service, <<>>), "ConfigurationError")

\* _build_rules(section): the four builders in turn; an exception ends it
_build_rules(section) ==
    LET c == _build_classification_rules(_classification_rules, section) IN
    IF c.raises # "none"
    THEN [classification |-> c.rules, exclusion |-> _exclusion_rules,
          enrichment |-> _enrichment_rules, routing |-> _routing_rules,
          raises |-> c.raises]
    ELSE
    LET x == _build_exclusion_rules(_exclusion_rules, section) IN
    IF x.raises # "none"
    THEN [classification |-> c.rules, exclusion |-> x.rules,
          enrichment |-> _enrichment_rules, routing |-> _routing_rules,
          raises |-> x.raises]
    ELSE
    LET e == _build_enrichment_rules(_enrichment_rules, section) IN
    IF e.raises # "none"
    THEN [classification |-> c.rules, exclusion |-> x.rules,
          enrichment |-> e.rules, routing |-> _routing_rules,
          raises |-> e.raises]
    ELSE
    LET r == _build_routing_rules(_routing_rules, section) IN
    [classification |-> c.rules, exclusion |-> x.rules,
     enrichment |-> e.rules, routing |-> r.rules, raises |-> r.raises]

----------------------------------------------------------------------------
(* Configuration trees *)

foo == <<"f", "o", "o">>
Foo == <<"F", "o", "o">>
FOO == <<"F", "O", "O">>
bar == <<"b", "a", "r">>
ghost == <<"g", "h", "o", "s", "t">>

\* section names of the configuration trees
SectionNames == {foo, Foo, bar}
\* service names the accessors are called with
LookupNames == SectionNames \cup {FOO, ghost}

Keywords == {<<"d">>, <<"D">>, <<"b">>, <<"D", "b">>}
IfKeywords == {<<"d">>, <<"D">>, <<"b">>}
Templates == {<<"b", Slot>>, <<Slot, "D">>, <<"d">>}
EntryTemplates == {<<"b", Slot>>, <<Slot, "D">>}
Destinations == {"dba-team", "infra-team"}
Messages == SeqsUpTo(Chars, MaxMsgLen)

\* the keyword lists of a severity bucket
BucketLists == {<<>>, <<<<"d">>>>, <<<<"D">>>>, <<<<"b">>>>, <<<<"b">>, <<"D">>>>}
\* classification sections: any of the three buckets may be absent
ClassificationValues ==
    UNION {[S -> BucketLists] : S \in SUBSET {"CRITICAL", "WARNING", "OK"}}
ExcludeValues == SeqsUpTo(Keywords, MaxEntries)
EnrichmentValues ==
    {YamlStr(t) : t \in Templates}
    \cup {YamlList(l) : l \in SeqsUpTo(Entries(IfKeywords, EntryTemplates), MaxEntries)}
RouteValues ==
    {YamlStr(d) : d \in Destinations}
    \cup {YamlList(l) : l \in SeqsUpTo(Entries(IfKeywords, Destinations), MaxEntries)}

\* a smallest valid service configuration
BaseConfig ==
    [classification |-> [CRITICAL |-> <<<<"d">>>>], routes |-> YamlStr("dba-team")]

\* BaseConfig with one section set
With(section, value) == (section :> value) @@ BaseConfig

\* valid service configurations, each varying one section
ValidConfigs ==
    {With("classification", c) : c \in ClassificationValues}
    \cup {With("exclude", x) : x \in ExcludeValues}
    \cup {With("enrichments", e) : e \in EnrichmentValues}
    \cup {With("routes", r) : r \in RouteValues}

ConfigA ==
    [classification |-> [CRITICAL |-> <<<<"d">>>>, OK |-> <<<<"b">>>>],
     exclude |-> <<<<"b">>>>,
     enrichments |-> YamlStr(<<"b", Slot>>),
     routes |-> YamlStr("dba-team")]
ConfigB ==
    [classification |-> [WARNING |-> <<<<"b">>>>],
     enrichments |-> YamlList(<<Entry(<<"D">>, <<Slot, "D">>)>>),
     routes |-> YamlList(<<Entry(<<"d">>, "infra-team")>>)]
NoClassification == [routes |-> YamlStr("dba-team")]
NoRoutes == [classification |-> [CRITICAL |-> <<<<"d">>>>], exclude |-> <<<<"b">>>>]
BadEnrichments == With("enrichments", YamlDict)
BadRoutes == With("routes", YamlDict)

\* service configurations of the trees with several sections
SectionConfigs == {ConfigA, ConfigB, NoClassification, NoRoutes, BadEnrichments, BadRoutes}

\* the key orders of a tree: sequences of distinct section names
KeyOrders ==
    {o \in SeqsUpTo(SectionNames, MaxSections) :
        /\ Len(o) >= 1
        /\ \A i, j \in 1..Len(o) : i # j => o[i] # o[j]}

Range(f) == {f[i] : i \in DOMAIN f}

----------------------------------------------------------------------------
(* Rules.__init__ up to the loop: the parsed tree is in self._config and   *)
(* the four rule maps are empty.                                           *)

NoReturn == [accessor |-> "none", service |-> <<>>, raises |-> "none", rules |-> <<>>]
NotApplied == [done |-> FALSE, results |-> <<>>]
NoAlert == [message |-> <<>>]

Init ==
    /\ \/ \E o \in KeyOrders : \E c \in [Range(o) -> SectionConfigs] :
            /\ sections = o
            /\ _config = c
       \/ \E c \in ValidConfigs :
            /\ sections = <<foo>>
            /\ _config = (foo :> c)
    /\ _classification_rules = <<>>
    /\ _exclusion_rules = <<>>
    /\ _enrichment_rules = <<>>
    /\ _routing_rules = <<>>
    /\ pc = "init"
    /\ built = 0
    /\ raised = "none"
    /\ returned = NoReturn
    /\ alert = NoAlert
    /\ applied = NotApplied

----------------------------------------------------------------------------
(* Operations *)

\* one turn of the constructor's loop: self._build_rules(section)
BuildRules ==
    /\ pc = "init"
    /\ built < Len(sections)
    /\ LET b == _build_rules(sections[built + 1]) IN
        /\ _classification_rules' = b.classification
        /\ _exclusion_rules' = b.exclusion
        /\ _enrichment_rules' = b.enrichment
        /\ _routing_rules' = b.routing
        /\ raised' = b.raises
        /\ pc' = IF b.raises # "none" THEN "raised"
                 ELSE IF built + 1 = Len(sections) THEN "constructed"
                 ELSE "init"
    /\ built' = built + 1
    /\ UNCHANGED <<_config, sections, returned, alert, applied>>

\* faulty variant: the accessor looks the name up as given
Lookup_AsGiven(rules, service) ==
    IF service \in DOMAIN rules
    THEN [raises |-> "none", rules |-> rules[service]]
    ELSE [raises |-> "ServiceNotDefinedError", rules |-> <<>>]

\* try: return rules[service.lower()]  except KeyError: raise ServiceNotDefinedError
Lookup(rules, service) ==
    IF Lower(service) \in DOMAIN rules
    THEN [raises |-> "none", rules |-> rules[Lower(service)]]
    ELSE [raises |-> "ServiceNotDefinedError", rules |-> <<>>]

Return(accessor, service, got) ==
    /\ pc = "constructed"
    /\ returned = NoReturn
    /\ returned' = [accessor |-> accessor, service |-> service,
                    raises |-> got.raises, rules |-> got.rules]
    /\ applied' = NotApplied
    /\ UNCHANGED <<_config, sections, store, pc, built, raised, alert>>

get_classification_rules(service) ==
    Return("classification", service, Lookup(_classification_rules, service))

get_exclusion_rules(service) ==
    Return("exclusion", service, Lookup(_exclusion_rules, service))

get_enrichment_rules(service) ==
    Return("enrichment", service, Lookup(_enrichment_rules, service))

get_routing_rules(service) ==
    Return("routing", service, Lookup(_routing_rules, service))

\* the caller applies every rule of the returned list to the alert it handles
ApplyRules(message) ==
    /\ returned.accessor # "none"
    /\ returned.raises = "none"
    /\ applied.done => message = alert.message
    /\ alert' = [message |-> message]
    /\ applied' = [done |-> TRUE,
                   results |-> [i \in 1..Len(returned.rules) |->
                                    Call(returned.rules[i], alert')]]
    /\ UNCHANGED <<_config, sections, store, pc, built, raised, returned>>

\* the caller is done with the alert (or with the error): its locals go
Handled ==
    /\ returned.accessor # "none"
    /\ returned' = NoReturn
    /\ alert' = NoAlert
    /\ applied' = NotApplied
    /\ UNCHANGED <<_config, sections, store, pc, built, raised>>

Next ==
    \/ BuildRules
    \/ \E service \in LookupNames : get_classification_rules(service)
    \/ \E service \in LookupNames : get_exclusion_rules(service)
    \/ \E service \in LookupNames : get_enrichment_rules(service)
    \/ \E service \in LookupNames : get_routing_rules(service)
    \/ \E message \in Messages : ApplyRules(message)
    \/ Handled

Spec == Init /\ [][Next]_vars

----------------------------------------------------------------------------
(* Vocabulary of the properties *)

\* keyword match: case-insensitive substring containment
Matches(keyword, message) == In(Lower(keyword), Lower(message))

AnyMatches(keywords, message) ==
    \E i \in 1..Len(keywords) : Matches(keywords[i], message)

\* a service configuration with both required sections and well-formed values
WellFormed(cfg) ==
    /\ "classification" \in DOMAIN cfg
    /\ "routes" \in DOMAIN cfg
    /\ cfg["routes"].type \in {"str", "list"}
    /\ "enrichments" \in DOMAIN cfg => cfg["enrichments"].type \in {"str", "list"}

\* the normalized names of the sections the constructor has compiled
Compiled == {Lower(sections[i]) : i \in 1..built}

\* the configuration stored under the normalized name of the returned service
ReturnedConfig == _config[Lower(returned.service)]

\* an accessor returned a rule list; ...and the caller applied it to the alert
Got(accessor) == returned.accessor = accessor /\ returned.raises = "none"
Ran(accessor) == Got(accessor) /\ applied.done

\* the results that are not "no effect", in order
Effects(results) == SelectSeq(results, LAMBDA r : r # None)

\* the entries of a list whose IF keyword matches the message, in order
Hits(entries, message) == SelectSeq(entries, LAMBDA e : Matches(e["IF"], message))

----------------------------------------------------------------------------
(* C6: after a successful build every accessor raises                      *)
(* ServiceNotDefinedError for a name that was never compiled (names        *)
(* compared in lower case) and returns for a compiled one, and an accessor *)
(* call, failing or not, leaves the four rule maps as they were.           *)
C6_LookupDefinedIffCompiled ==
    /\ [](returned.accessor # "none" =>
            /\ Lower(returned.service) \notin Compiled
                   => returned.raises = "ServiceNotDefinedError"
            /\ Lower(returned.service) \in Compiled
                   => returned.raises = "none")
    /\ [][pc = "constructed" => store' = store]_vars

C6_Witness ==
    /\ pc = "constructed"
    /\ foo \in Compiled
    /\ returned.accessor = "exclusion"
    /\ returned.service = ghost
    /\ returned.raises = "ServiceNotDefinedError"

----------------------------------------------------------------------------
(* C8: for a service whose enrichments section is a list of N IF/THEN      *)
(* entries the enrichment set holds N rules in the entries' order; applied *)
(* in order to a message that K entries match, the results that are not    *)
(* "no effect" are exactly K records, in the entries' order, each the      *)
(* entry's own THEN template formatted with the alert message.             *)
C8_EnrichmentComposition ==
    (/\ Got("enrichment")
     /\ "enrichments" \in DOMAIN ReturnedConfig
     /\ ReturnedConfig["enrichments"].type = "list")
    => LET entries == ReturnedConfig["enrichments"].value
           N == Len(entries)
           m == alert.message
           hits == Hits(entries, m)
           K == Cardinality({i \in 1..N : Matches(entries[i]["IF"], m)})
       IN  /\ Len(returned.rules) = N
           /\ applied.done =>
                /\ Len(applied.results) = N
                /\ \A i \in 1..N :
                     applied.results[i] =
                        IF Matches(entries[i]["IF"], m)
                        THEN [message |-> Format(entries[i]["THEN"], m)]
                        ELSE None
                /\ Len(Effects(applied.results)) = K
                /\ Effects(applied.results) =
                     [i \in 1..Len(hits) |-> [message |-> Format(hits[i]["THEN"], m)]]

\* two entries with different templates, both matching the message
C8_Witness ==
    /\ Ran("enrichment")
    /\ "enrichments" \in DOMAIN ReturnedConfig
    /\ ReturnedConfig["enrichments"].type = "list"
    /\ Len(ReturnedConfig["enrichments"].value) = 2
    /\ ReturnedConfig["enrichments"].value[1]["THEN"]
         # ReturnedConfig["enrichments"].value[2]["THEN"]
    /\ Len(Effects(applied.results)) = 2
    /\ applied.results[1] # applied.results[2]

----------------------------------------------------------------------------
(* C9: for a service whose routes section is one string the routing set    *)
(* holds one rule, which returns that destination for every message; for a *)
(* list of N IF/THEN entries it holds N rules in the entries' order, and   *)
(* the results that are not "no effect" are the THEN destinations of all   *)
(* the matching entries, in the entries' order.                            *)
C9_RoutingComposition ==
    Got("routing") =>
       LET routes == ReturnedConfig["routes"]
           m == alert.message
       IN  /\ routes.type = "str" =>
                /\ Len(returned.rules) = 1
                /\ applied.done => applied.results = <<Str(routes.value)>>
           /\ routes.type = "list" =>
                LET N == Len(routes.value)
                    hits == Hits(routes.value, m)
                IN  /\ Len(returned.rules) = N
                    /\ applied.done =>
                         /\ Len(applied.results) = N
                         /\ \A i \in 1..N :
                              applied.results[i] =
                                 IF Matches(routes.value[i]["IF"], m)
                                 THEN Str(routes.value[i]["THEN"])
                                 ELSE None
                         /\ Effects(applied.results) =
                              [i \in 1..Len(hits) |-> Str(hits[i]["THEN"])]

\* routes [{IF: D, THEN: dba-team}, {IF: b, THEN: infra-team}], message "db"
C9_Witness ==
    /\ Ran("routing")
    /\ ReturnedConfig["routes"] =
          YamlList(<<Entry(<<"D">>, "dba-team"), Entry(<<"b">>, "infra-team")>>)
    /\ alert.message = <<"d", "b">>
    /\ Effects(applied.results) = <<Str("dba-team"), Str("infra-team")>>

----------------------------------------------------------------------------
(* C1: the single classification rule returns CRITICAL when a keyword of   *)
(* the CRITICAL bucket matches the message, whatever else matches; else    *)
(* WARNING when a WARNING keyword matches; else OK when an OK keyword      *)
(* matches; else UNKNOWN.  An absent bucket counts as empty.               *)
C1_ClassificationPrecedence ==
    Got("classification") =>
       LET cl == ReturnedConfig["classification"]
           C == Get(cl, "CRITICAL", <<>>)
           W == Get(cl, "WARNING", <<>>)
           O == Get(cl, "OK", <<>>)
           m == alert.message
       IN  /\ Len(returned.rules) = 1
           /\ applied.done =>
                applied.results =
                   << IF AnyMatches(C, m) THEN "CRITICAL"
                      ELSE IF AnyMatches(W, m) THEN "WARNING"
                      ELSE IF AnyMatches(O, m) THEN "OK"
                      ELSE "UNKNOWN" >>

----------------------------------------------------------------------------
(* C2: in all four rule kinds a configured keyword k matches a message m   *)
(* exactly when lower(k) is a substring of lower(m).                       *)
C2_CaseInsensitiveEverywhere ==
    LET m == alert.message IN
    /\ Ran("classification") =>
          LET cl == ReturnedConfig["classification"] IN
          (applied.results[1] # "UNKNOWN")
             <=> \E b \in DOMAIN cl : AnyMatches(cl[b], m)
    /\ (Ran("exclusion") /\ "exclude" \in DOMAIN ReturnedConfig) =>
          (applied.results[1] <=> AnyMatches(ReturnedConfig["exclude"], m))
    /\ (/\ Ran("enrichment")
        /\ "enrichments" \in DOMAIN ReturnedConfig
        /\ ReturnedConfig["enrichments"].type = "list") =>
          \A i \in 1..Len(applied.results) :
             (applied.results[i] # None)
                <=> Matches(ReturnedConfig["enrichments"].value[i]["IF"], m)
    /\ (Ran("routing") /\ ReturnedConfig["routes"].type = "list") =>
          \A i \in 1..Len(applied.results) :
             (applied.results[i] # None)
                <=> Matches(ReturnedConfig["routes"].value[i]["IF"], m)

----------------------------------------------------------------------------
(* C3: compiling a section whose configuration lacks classification or     *)
(* routes, or whose enrichments or routes value is neither a string nor a  *)
(* list, raises ConfigurationError, which ends the whole build: the        *)
(* constructor fails and no later section is compiled.                     *)
C3_InvalidSectionRaisesConfigurationError ==
    \A i \in 1..built :
        ~WellFormed(_config[sections[i]]) =>
            /\ pc = "raised"
            /\ raised = "ConfigurationError"
            /\ built = i

----------------------------------------------------------------------------
(* C4: when compiling a service raises ConfigurationError, that service is *)
(* a key of none of the four rule maps.                                    *)
C4_NoPartiallyBuiltService ==
    (pc = "raised" /\ raised = "ConfigurationError") =>
        LET service == Lower(sections[built]) IN
        /\ service \notin DOMAIN _classification_rules
        /\ service \notin DOMAIN _exclusion_rules
        /\ service \notin DOMAIN _enrichment_rules
        /\ service \notin DOMAIN _routing_rules

----------------------------------------------------------------------------
(* The rule list a well-formed configuration compiles to, per accessor *)
RulesOf(accessor, cfg) ==
    CASE accessor = "classification" -> <<Closure("classification", cfg)>>
      [] accessor = "exclusion" ->
            IF "exclude" \in DOMAIN cfg THEN <<Closure("exclusion", cfg)>> ELSE <<>>
      [] accessor = "enrichment" ->
            IF "enrichments" \notin DOMAIN cfg THEN <<>>
            ELSE IF cfg["enrichments"].type = "str" THEN <<Closure("enrichment_str", cfg)>>
            ELSE [i \in 1..Len(cfg["enrichments"].value) |->
                     Closure("enrichment_entry", cfg["enrichments"].value[i])]
      [] accessor = "routing" ->
            IF cfg["routes"].type = "str" THEN <<Closure("routing_str", cfg)>>
            ELSE [i \in 1..Len(cfg["routes"].value) |->
                     Closure("routing_entry", cfg["routes"].value[i])]

\* the last section in key order with the returned service's normalized name
LastSectionOf(service) ==
    sections[CHOOSE i \in 1..Len(sections) :
                /\ Lower(sections[i]) = Lower(service)
                /\ \A j \in (i + 1)..Len(sections) : Lower(sections[j]) # Lower(service)]

AllWellFormed == \A i \in 1..Len(sections) : WellFormed(_config[sections[i]])

----------------------------------------------------------------------------
(* C5: whatever the letter case of the section names, the build of a tree  *)
(* of valid configurations succeeds, and afterwards every accessor, called *)
(* with any casing of a section's name, returns the rule set compiled from *)
(* that service's configuration.                                           *)
C5_ServiceNamesNormalized ==
    AllWellFormed =>
        /\ pc # "raised"
        /\ \A i \in 1..built :
              /\ Lower(sections[i]) \in DOMAIN _classification_rules
              /\ Lower(sections[i]) \in DOMAIN _exclusion_rules
              /\ Lower(sections[i]) \in DOMAIN _enrichment_rules
              /\ Lower(sections[i]) \in DOMAIN _routing_rules
        /\ (returned.accessor # "none"
            /\ \E i \in 1..Len(sections) : Lower(sections[i]) = Lower(returned.service))
           => /\ returned.raises = "none"
              /\ returned.rules
                   = RulesOf(returned.accessor, _config[LastSectionOf(returned.service)])

----------------------------------------------------------------------------
(* C7: when two sections with the same normalized name and different       *)
(* configurations are compiled in sequence, every accessor afterwards      *)
(* returns the rules compiled from the second configuration only.          *)
C7_LastWriteWins ==
    (/\ pc = "constructed"
     /\ returned.accessor # "none"
     /\ returned.raises = "none"
     /\ \E i, j \in 1..Len(sections) :
           /\ i < j
           /\ Lower(sections[i]) = Lower(sections[j])
           /\ Lower(sections[j]) = Lower(returned.service)
           /\ _config[sections[i]] # _config[sections[j]])
    => returned.rules = RulesOf(returned.accessor, _config[LastSectionOf(returned.service)])

----------------------------------------------------------------------------
(* C10: without an exclude section the exclusion set is empty; with one it *)
(* holds exactly one rule, which is true exactly when the message contains *)
(* one of the exclude keywords (keyword and message compared in lower      *)
(* case); applying it again to the same alert gives the same boolean and   *)
(* changes neither the alert nor the rule maps.                            *)
C10_Exclusion ==
    /\ [](Got("exclusion") =>
            IF "exclude" \notin DOMAIN ReturnedConfig
            THEN returned.rules = <<>>
            ELSE /\ Len(returned.rules) = 1
                 /\ applied.done =>
                      applied.results
                         = <<AnyMatches(ReturnedConfig["exclude"], alert.message)>>)
    /\ [][(Ran("exclusion") /\ applied'.done /\ returned' = returned)
            => (applied' = applied /\ alert' = alert /\ store' = store)]_vars

====
